---- MODULE Spec2Model ----
(***************************************************************************)
(* Model of the voting-booth host in face.py: the main loop that reads     *)
(* lines from the ESP32 over the serial link, gates a card by prefix,      *)
(* non-reuse and face verification, and records one vote per card in       *)
(* votes.json.                                                             *)
(*                                                                         *)
(* Text is modelled as sequences of one-character strings, so prefix       *)
(* slicing, strip(), split(":") and startswith() are computed as Python    *)
(* computes them.                                                          *)
(***************************************************************************)
EXTENDS Naturals, Sequences, FiniteSets

VARIABLES
    pc,          \* position of the host in main(): "poll", "verify", "allow",
                 \* "deny", "sleep", "except"
    rx,          \* serial input buffer: raw lines sent by the device, unread
    tx,          \* the command most recently written to the device
    nsent,       \* parity of the number of commands written so far
    uid,         \* main()'s local uid (None until the first CHECK line)
    candidate,   \* main()'s local candidate
    votes,       \* main()'s local votes: the in-memory ballot store
    disk,        \* votes.json: [exists, valid, data]
    faults,      \* number of transport and file errors raised so far
    lastCard,    \* history: credential of the most recent CHECK line
    lastReply,   \* history: command answered to the most recent CHECK line
    sessionLive, \* history: an ALLOW was sent and no CHECK or vote came since
    superseded,  \* history: credential whose live session the latest CHECK ended
    saveFailed,  \* history: save_votes has raised
    sawCard,     \* history: a CHECK line with a non-empty uid has been taken
    inertSince,  \* history: a line that is neither CHECK nor VOTE was taken
                 \* in a live session since the latest CHECK line
    sincePrompt, \* seconds since last_prompt, counted up to PromptInterval + 1
    rt,          \* the save/load/save round trip of votes.json: [step, m, ...]
    hs           \* history of connect_esp32's wait for READY: whether it is
                 \* over, and whether a CHECK or VOTE line was dropped in it

vars == <<pc, rx, tx, nsent, uid, candidate, votes, disk, faults,
          lastCard, lastReply, sessionLive, superseded,
          saveFailed, sawCard, inertSince, sincePrompt, rt, hs>>

(***************************************************************************)
(* Bounds of the model.                                                    *)
(***************************************************************************)
MaxRx == 1
MaxFaults == 1

(***************************************************************************)
(* Text helpers (Python str semantics).                                    *)
(***************************************************************************)
Whitespace == {" ", "\t", "\r", "\n"}

\* A byte that is not valid text: bytes.decode(errors='ignore') drops it.
BadByte == "0xFF"

Decode(bytes) == SelectSeq(bytes, LAMBDA b : b # BadByte)

RECURSIVE LStrip(_)
LStrip(s) ==
    IF s # <<>> /\ Head(s) \in Whitespace THEN LStrip(Tail(s)) ELSE s

RECURSIVE RStrip(_)
RStrip(s) ==
    IF s # <<>> /\ s[Len(s)] \in Whitespace
    THEN RStrip(SubSeq(s, 1, Len(s) - 1))
    ELSE s

Strip(s) == RStrip(LStrip(s))

StartsWith(s, p) == Len(s) >= Len(p) /\ SubSeq(s, 1, Len(p)) = p

Contains(s, sub) ==
    \E i \in 1..(Len(s) + 1) :
        i + Len(sub) - 1 <= Len(s) /\ SubSeq(s, i, i + Len(sub) - 1) = sub

\* Index of the first ":" of s, or Len(s) + 1 when there is none.
ColonAt(s) ==
    IF \E i \in 1..Len(s) : s[i] = ":"
    THEN CHOOSE i \in 1..Len(s) : s[i] = ":" /\ \A j \in 1..(i - 1) : s[j] # ":"
    ELSE Len(s) + 1

\* s.split(":")[1] for a string s that holds at least one colon.
SplitField1(s) ==
    LET rest == SubSeq(s, ColonAt(s) + 1, Len(s))
    IN  SubSeq(rest, 1, ColonAt(rest) - 1)

CHECK == <<"C", "H", "E", "C", "K", ":">>
VOTE == <<"V", "O", "T", "E", ":">>
READY == <<"R", "E", "A", "D", "Y">>
CRLF == <<"\r", "\n">>

\* esp.readline().decode(errors='ignore').strip()
ReadLine(raw) == Strip(Decode(raw))

\* uid = line.split(":")[1].strip()
ParseUid(line) == Strip(SplitField1(line))

\* candidate = line.split(":")[1]
ParseCandidate(line) == SplitField1(line)

\* prefix = uid[:2]
Prefix(u) == SubSeq(u, 1, IF Len(u) < 2 THEN Len(u) ELSE 2)

(***************************************************************************)
(* Configuration and the device's vocabulary.                              *)
(***************************************************************************)
AllowedPrefixes == {<<"9", "E">>, <<"2", "2">>}

\* known_encodings: the prefixes with a reference face in registered_faces.
KnownEncodings == {<<"9", "E">>}

\* Python's None for uid and candidate before they are first assigned.
None == <<"None">>

Uids == {<<"9", "E", "1">>, <<"A", "A", "1">>}
Candidates == {<<"X">>, <<"Y">>}

DeviceLines ==
    {CHECK \o u \o CRLF : u \in Uids \cup {<<>>}}
        \cup {VOTE \o c \o CRLF : c \in Candidates \cup {<<>>}}
        \cup {READY \o CRLF, <<BadByte>> \o CRLF, <<"?">> \o CRLF}

(***************************************************************************)
(* Store helpers.                                                          *)
(***************************************************************************)
EmptyMap == [u \in {} |-> <<>>]

\* votes[uid] = candidate
Put(m, k, v) == [x \in DOMAIN m \cup {k} |-> IF x = k THEN v ELSE m[x]]

\* Python truth value of a str-or-None
Truthy(s) == s # None /\ s # <<>>

\* esp.write(cmd): cmd becomes the command most recently written.
Push(t, cmd) == cmd

Flip(b) == 1 - b

\* json.dump(votes, f) into a freshly opened votes.json
Save(m) == [exists |-> TRUE, valid |-> TRUE, data |-> m]

\* load_votes(): the file's mapping, or {} when there is no file
Load(d) == IF d.exists THEN d.data ELSE EmptyMap

\* votes.json at startup: absent, or left by an earlier run
NoFile == [exists |-> FALSE, valid |-> TRUE, data |-> EmptyMap]
InitialFiles == {NoFile, Save(Put(EmptyMap, <<"9", "E", "1">>, <<"X">>))}

\* open(VOTE_FILE, "w") succeeded and truncated the file, the dump did not finish
Truncated == [exists |-> TRUE, valid |-> FALSE, data |-> EmptyMap]

(***************************************************************************)
(* The decisions of the CHECK branch.                                      *)
(***************************************************************************)
\* Variant of Gate that forgets the already-voted test of line 147.
GateNoVoted(u, store) ==
    IF Prefix(u) \notin AllowedPrefixes THEN "prefix" ELSE "verify"

\* Variant of Gate that forgets the prefix test of line 140.
GateNoPrefix(u, store) ==
    IF u \in DOMAIN store THEN "voted" ELSE "verify"

\* lines 140-153: the two gates before face verification
Gate(u, store) ==
    IF Prefix(u) \notin AllowedPrefixes THEN "prefix"
    ELSE IF u \in DOMAIN store THEN "voted"
    ELSE "verify"

\* Variant of Reply that answers ALLOW whatever verify_face returned.
ReplyAllow(matched) == "ALLOW"

\* lines 154-158: the command that answers verify_face's result
Reply(matched) == IF matched THEN "ALLOW" ELSE "DENY"

\* line 81: verify_face can only match a prefix that has a reference face
CanMatch(p) == p \in KnownEncodings

\* Variant of SessionUid that keeps a credential already being processed.
SessionUidKeep(old, new) == IF Truthy(old) THEN old ELSE new

\* line 133: the CHECK branch assigns the session credential
SessionUid(old, new) == new

\* Variant of NoSession that tests `uid is None` in place of `not uid`.
NoSessionNoneOnly(u) == u = None

\* line 164: if not uid
NoSession(u) == ~Truthy(u)

\* Variant of RecordVote that leaves the ballot out of the store.
RecordVoteSkip(store, u, c) == store

\* line 173: votes[uid] = candidate
RecordVote(store, u, c) == Put(store, u, c)

(***************************************************************************)
(* The line at the head of the input buffer, as main() sees it.            *)
(***************************************************************************)
Line == ReadLine(Head(rx))
HasLine == pc = "poll" /\ rx # <<>>
IsCheck(l) == StartsWith(l, CHECK)
IsVote(l) == ~IsCheck(l) /\ StartsWith(l, VOTE)
IsReady(l) == ~IsCheck(l) /\ ~StartsWith(l, VOTE) /\ Contains(l, READY)

\* The history of a CHECK line being taken up: any live session ends.
NoteCheck(u) ==
    /\ lastCard' = u
    /\ sessionLive' = FALSE
    /\ superseded' = IF sessionLive /\ lastCard # u THEN lastCard ELSE None
    /\ sawCard' = (sawCard \/ Truthy(u))
    /\ inertSince' = FALSE

\* no round trip of votes.json is under way
RtIdle == [step |-> "idle"]

\* connect_esp32 has returned; how it went is left open
HsDone == [seen |-> "done", dropped |-> FALSE]

Init ==
    /\ pc = "poll"
    /\ rx = <<>>
    /\ tx = "none"
    /\ nsent = 0
    /\ uid = None
    /\ candidate = None
    /\ disk \in InitialFiles
    /\ votes = Load(disk)
    /\ faults = 0
    /\ lastCard = None
    /\ lastReply = "none"
    /\ sessionLive = FALSE
    /\ superseded = None
    /\ saveFailed = FALSE
    /\ sawCard = FALSE
    /\ inertSince = FALSE
    /\ sincePrompt = 0
    /\ rt = RtIdle
    /\ hs = HsDone

(***************************************************************************)
(* The device: sends a line whenever the input buffer has room.            *)
(***************************************************************************)
DeviceSend ==
    /\ Len(rx) < MaxRx
    /\ \E l \in DeviceLines : rx' = Append(rx, l)
    /\ UNCHANGED <<pc, tx, nsent, uid, candidate, votes, disk, faults,
                   lastCard, lastReply, sessionLive, superseded,
                   saveFailed, sawCard, inertSince, sincePrompt, rt, hs>>

(***************************************************************************)
(* main(): lines 126-130, an empty line is skipped.                        *)
(***************************************************************************)
SkipEmpty ==
    /\ HasLine
    /\ Line = <<>>
    /\ rx' = Tail(rx)
    /\ inertSince' = (inertSince \/ sessionLive)
    /\ UNCHANGED <<pc, tx, nsent, uid, candidate, votes, disk, faults,
                   lastCard, lastReply, sessionLive, superseded,
                   saveFailed, sawCard, sincePrompt, rt, hs>>

(***************************************************************************)
(* main(): lines 132-159, the CHECK branch.                                *)
(***************************************************************************)
\* lines 132-150: a gate refuses the card and DENY is written
CheckDeny ==
    /\ HasLine
    /\ IsCheck(Line)
    /\ LET u == SessionUid(uid, ParseUid(Line))
       IN  /\ Gate(u, votes) \in {"prefix", "voted"}
           /\ uid' = u
           /\ NoteCheck(ParseUid(Line))
    /\ rx' = Tail(rx)
    /\ tx' = Push(tx, "DENY")
    /\ nsent' = Flip(nsent)
    /\ lastReply' = "DENY"
    /\ UNCHANGED <<faults, pc, candidate, votes, disk,
                   saveFailed, sincePrompt, rt, hs>>

\* lines 132-154: both gates pass and verify_face is called
CheckVerify ==
    /\ HasLine
    /\ IsCheck(Line)
    /\ LET u == SessionUid(uid, ParseUid(Line))
       IN  /\ Gate(u, votes) = "verify"
           /\ uid' = u
           /\ NoteCheck(ParseUid(Line))
    /\ rx' = Tail(rx)
    /\ pc' = "verify"
    /\ lastReply' = "none"
    /\ UNCHANGED <<faults, tx, nsent, candidate, votes, disk,
                   saveFailed, sincePrompt, rt, hs>>

\* lines 67-93: verify_face sees a matching face within its 10 seconds
VerifyMatch ==
    /\ pc = "verify"
    /\ CanMatch(Prefix(uid))
    /\ pc' = "allow"
    /\ UNCHANGED <<rx, tx, nsent, uid, candidate, votes, disk, faults,
                   lastCard, lastReply, sessionLive, superseded,
                   saveFailed, sawCard, inertSince, sincePrompt, rt, hs>>

\* Variant of VerifyFail that throws away what arrived during verification.
VerifyFailFlush ==
    /\ pc = "verify"
    /\ pc' = "deny"
    /\ rx' = <<>>
    /\ UNCHANGED <<tx, nsent, uid, candidate, votes, disk, faults,
                   lastCard, lastReply, sessionLive, superseded,
                   saveFailed, sawCard, inertSince, sincePrompt, rt, hs>>

\* lines 67-93: verify_face times out or is aborted without a match
VerifyFail ==
    /\ pc = "verify"
    /\ pc' = "deny"
    /\ UNCHANGED <<rx, tx, nsent, uid, candidate, votes, disk, faults,
                   lastCard, lastReply, sessionLive, superseded,
                   saveFailed, sawCard, inertSince, sincePrompt, rt, hs>>

\* Variant of WriteAllow that marks the card as used when it is allowed.
WriteAllowMarking ==
    /\ pc = "allow"
    /\ tx' = Push(tx, Reply(TRUE))
    /\ nsent' = Flip(nsent)
    /\ lastReply' = Reply(TRUE)
    /\ sessionLive' = (Reply(TRUE) = "ALLOW")
    /\ votes' = Put(votes, uid, <<>>)
    /\ disk' = Save(votes')
    /\ pc' = "poll"
    /\ UNCHANGED <<faults, rx, uid, candidate, lastCard, superseded,
                   saveFailed, sawCard, inertSince, sincePrompt, rt, hs>>

\* lines 154-156
WriteAllow ==
    /\ pc = "allow"
    /\ tx' = Push(tx, Reply(TRUE))
    /\ nsent' = Flip(nsent)
    /\ lastReply' = Reply(TRUE)
    /\ sessionLive' = (Reply(TRUE) = "ALLOW")
    /\ pc' = "poll"
    /\ UNCHANGED <<faults, rx, uid, candidate, votes, disk, lastCard, superseded,
                   saveFailed, sawCard, inertSince, sincePrompt, rt, hs>>

\* lines 157-159
WriteDeny ==
    /\ pc = "deny"
    /\ tx' = Push(tx, Reply(FALSE))
    /\ nsent' = Flip(nsent)
    /\ lastReply' = Reply(FALSE)
    /\ sessionLive' = (Reply(FALSE) = "ALLOW")
    /\ pc' = "poll"
    /\ UNCHANGED <<faults, rx, uid, candidate, votes, disk, lastCard, superseded,
                   saveFailed, sawCard, inertSince, sincePrompt, rt, hs>>

(***************************************************************************)
(* main(): lines 162-175, the VOTE branch.                                 *)
(***************************************************************************)
\* lines 162-166: no uid yet, the vote is dropped
VoteDrop ==
    /\ HasLine
    /\ IsVote(Line)
    /\ NoSession(uid)
    /\ candidate' = ParseCandidate(Line)
    /\ rx' = Tail(rx)
    /\ UNCHANGED <<faults, pc, tx, nsent, uid, votes, disk,
                   lastCard, lastReply, sessionLive, superseded,
                   saveFailed, sawCard, inertSince, sincePrompt, rt, hs>>

\* lines 162-170: STORE is written, then the host sleeps half a second
VoteStore ==
    /\ HasLine
    /\ IsVote(Line)
    /\ ~NoSession(uid)
    /\ candidate' = ParseCandidate(Line)
    /\ rx' = Tail(rx)
    /\ tx' = Push(tx, "STORE")
    /\ nsent' = Flip(nsent)
    /\ pc' = "sleep"
    /\ UNCHANGED <<faults, uid, votes, disk, lastCard, lastReply, sessionLive, superseded,
                   saveFailed, sawCard, inertSince, sincePrompt, rt, hs>>

\* Variant of VoteClear that records the ballot and forgets save_votes.
VoteClearUnsaved ==
    /\ pc = "sleep"
    /\ tx' = Push(tx, "CLEAR")
    /\ nsent' = Flip(nsent)
    /\ votes' = RecordVote(votes, uid, candidate)
    /\ disk' = disk
    /\ sessionLive' = FALSE
    /\ pc' = "poll"
    /\ UNCHANGED <<faults, rx, uid, candidate, lastCard, lastReply, superseded,
                   saveFailed, sawCard, inertSince, sincePrompt, rt, hs>>

\* lines 171-175: CLEAR is written, the ballot recorded and the file saved
VoteClear ==
    /\ pc = "sleep"
    /\ tx' = Push(tx, "CLEAR")
    /\ nsent' = Flip(nsent)
    /\ votes' = RecordVote(votes, uid, candidate)
    /\ disk' = Save(votes')
    /\ sessionLive' = FALSE
    /\ pc' = "poll"
    /\ UNCHANGED <<faults, rx, uid, candidate, lastCard, lastReply, superseded,
                   saveFailed, sawCard, inertSince, sincePrompt, rt, hs>>

(***************************************************************************)
(* main(): lines 177-178 and the fall-through of the if/elif chain.        *)
(***************************************************************************)
\* Variant of Ready that takes READY for a device restart and forgets the card.
ReadyForgets ==
    /\ HasLine
    /\ Line # <<>>
    /\ IsReady(Line)
    /\ rx' = Tail(rx)
    /\ uid' = None
    /\ sessionLive' = FALSE
    /\ inertSince' = (inertSince \/ sessionLive)
    /\ UNCHANGED <<pc, tx, nsent, candidate, votes, disk, faults,
                   lastCard, lastReply, superseded,
                   saveFailed, sawCard, sincePrompt, rt, hs>>

\* lines 177-178: a READY line is only printed
Ready ==
    /\ HasLine
    /\ Line # <<>>
    /\ IsReady(Line)
    /\ rx' = Tail(rx)
    /\ inertSince' = (inertSince \/ sessionLive)
    /\ UNCHANGED <<pc, tx, nsent, uid, candidate, votes, disk, faults,
                   lastCard, lastReply, sessionLive, superseded,
                   saveFailed, sawCard, sincePrompt, rt, hs>>

Unrecognized ==
    /\ HasLine
    /\ Line # <<>>
    /\ ~IsCheck(Line) /\ ~IsVote(Line) /\ ~IsReady(Line)
    /\ rx' = Tail(rx)
    /\ inertSince' = (inertSince \/ sessionLive)
    /\ UNCHANGED <<pc, tx, nsent, uid, candidate, votes, disk, faults,
                   lastCard, lastReply, sessionLive, superseded,
                   saveFailed, sawCard, sincePrompt, rt, hs>>

(***************************************************************************)
(* Transport and file errors: the exception leaves the try block at the    *)
(* failing call and lands in the handler of lines 184-186.                 *)
(***************************************************************************)
\* esp.in_waiting or esp.readline() raises: nothing was read
ReadFail ==
    /\ faults < MaxFaults
    /\ faults' = faults + 1
    /\ pc = "poll"
    /\ pc' = "except"
    /\ UNCHANGED <<rx, tx, nsent, uid, candidate, votes, disk,
                   lastCard, lastReply, sessionLive, superseded,
                   saveFailed, sawCard, inertSince, sincePrompt, rt, hs>>

\* lines 142 and 149: esp.write(b"DENY\n") raises after uid was assigned
CheckDenyFail ==
    /\ faults < MaxFaults
    /\ faults' = faults + 1
    /\ HasLine
    /\ IsCheck(Line)
    /\ LET u == SessionUid(uid, ParseUid(Line))
       IN  /\ Gate(u, votes) \in {"prefix", "voted"}
           /\ uid' = u
           /\ NoteCheck(ParseUid(Line))
    /\ rx' = Tail(rx)
    /\ lastReply' = "none"
    /\ pc' = "except"
    /\ UNCHANGED <<tx, nsent, candidate, votes, disk,
                   saveFailed, sincePrompt, rt, hs>>

\* lines 155 and 158: the write of the verification's answer raises
ReplyFail ==
    /\ faults < MaxFaults
    /\ faults' = faults + 1
    /\ pc \in {"allow", "deny"}
    /\ pc' = "except"
    /\ UNCHANGED <<rx, tx, nsent, uid, candidate, votes, disk,
                   lastCard, lastReply, sessionLive, superseded,
                   saveFailed, sawCard, inertSince, sincePrompt, rt, hs>>

\* line 169: esp.write(b"STORE\n") raises
StoreFail ==
    /\ faults < MaxFaults
    /\ faults' = faults + 1
    /\ HasLine
    /\ IsVote(Line)
    /\ ~NoSession(uid)
    /\ candidate' = ParseCandidate(Line)
    /\ rx' = Tail(rx)
    /\ pc' = "except"
    /\ UNCHANGED <<tx, nsent, uid, votes, disk,
                   lastCard, lastReply, sessionLive, superseded,
                   saveFailed, sawCard, inertSince, sincePrompt, rt, hs>>

\* line 171: esp.write(b"CLEAR\n") raises, lines 173-174 are not reached
ClearFail ==
    /\ faults < MaxFaults
    /\ faults' = faults + 1
    /\ pc = "sleep"
    /\ pc' = "except"
    /\ UNCHANGED <<rx, tx, nsent, uid, candidate, votes, disk,
                   lastCard, lastReply, sessionLive, superseded,
                   saveFailed, sawCard, inertSince, sincePrompt, rt, hs>>

\* lines 173-174: the ballot is in votes, save_votes raises; the file is
\* left as it was (open failed) or truncated (the dump failed)
SaveFail ==
    /\ faults < MaxFaults
    /\ faults' = faults + 1
    /\ pc = "sleep"
    /\ tx' = Push(tx, "CLEAR")
    /\ nsent' = Flip(nsent)
    /\ votes' = RecordVote(votes, uid, candidate)
    /\ disk' \in {disk, Truncated}
    /\ sessionLive' = FALSE
    /\ saveFailed' = TRUE
    /\ pc' = "except"
    /\ UNCHANGED <<rx, uid, candidate, lastCard, lastReply, superseded,
                   sawCard, inertSince, sincePrompt, rt, hs>>

(***************************************************************************)
(* main(): lines 180-183, the operator stops the program with Ctrl-C.      *)
(***************************************************************************)
\* KeyboardInterrupt inside the try block: esp.close() and break
Interrupt ==
    /\ pc \in {"poll", "verify", "allow", "deny", "sleep"}
    /\ pc' = "stopped"
    /\ UNCHANGED <<rx, tx, nsent, uid, candidate, votes, disk, faults,
                   lastCard, lastReply, sessionLive, superseded,
                   saveFailed, sawCard, inertSince, sincePrompt, rt, hs>>

\* KeyboardInterrupt during the handler's time.sleep(1) of line 186: no
\* except clause covers it and the process dies
InterruptBackoff ==
    /\ pc = "except"
    /\ pc' = "killed"
    /\ UNCHANGED <<rx, tx, nsent, uid, candidate, votes, disk, faults,
                   lastCard, lastReply, sessionLive, superseded,
                   saveFailed, sawCard, inertSince, sincePrompt, rt, hs>>

\* Variant of Recover in which the handler leaves the loop.
RecoverBreak ==
    /\ pc = "except"
    /\ pc' = "stopped"
    /\ UNCHANGED <<rx, tx, nsent, uid, candidate, votes, disk, faults,
                   lastCard, lastReply, sessionLive, superseded,
                   saveFailed, sawCard, inertSince, sincePrompt, rt, hs>>

\* lines 184-186: the error is printed and the loop resumes after a second
Recover ==
    /\ pc = "except"
    /\ pc' = "poll"
    /\ UNCHANGED <<rx, tx, nsent, uid, candidate, votes, disk, faults,
                   lastCard, lastReply, sessionLive, superseded,
                   saveFailed, sawCard, inertSince, sincePrompt, rt, hs>>

Next ==
    \/ DeviceSend
    \/ SkipEmpty
    \/ CheckDeny
    \/ CheckVerify
    \/ VerifyMatch
    \/ VerifyFail
    \/ WriteAllow
    \/ WriteDeny
    \/ VoteDrop
    \/ VoteStore
    \/ VoteClear
    \/ Ready
    \/ Unrecognized
    \/ ReadFail
    \/ CheckDenyFail
    \/ ReplyFail
    \/ StoreFail
    \/ ClearFail
    \/ SaveFail
    \/ Recover

Spec == Init /\ [][Next]_vars

\* The main loop together with the operator's Ctrl-C.
NextStop == Next \/ Interrupt \/ InterruptBackoff

SpecStop == Init /\ [][NextStop]_vars

(***************************************************************************)
(* Steps of the host, recognised from outside.                             *)
(***************************************************************************)
\* the host takes a CHECK line off the input buffer
TakesCheck == HasLine /\ IsCheck(Line) /\ rx' = Tail(rx)

\* the host takes a VOTE line off the input buffer
TakesVote == HasLine /\ IsVote(Line) /\ rx' = Tail(rx)

\* a step of the handling of a CHECK line
CheckStep == TakesCheck \/ (pc \in {"verify", "allow", "deny"} /\ pc' # pc)

\* a step of the handling of a VOTE line
VoteStep == TakesVote \/ (pc = "sleep" /\ pc' # pc)

\* a command is written to the device in this step
Writes == nsent' # nsent

\* the ballot of credential u is added or changed in this step
BallotChanged(u) ==
    u \in DOMAIN votes' /\ (u \notin DOMAIN votes \/ votes'[u] # votes[u])

(***************************************************************************)
(* C1: a ballot is added or changed for credential u only if the most      *)
(* recent CHECK line carried u and was answered with ALLOW; a vote that    *)
(* follows a DENY records nothing.                                         *)
(***************************************************************************)
C1_AuthorizationPrecedesVoting ==
    [][\A u \in DOMAIN votes' :
           BallotChanged(u) => (u = lastCard /\ lastReply = "ALLOW")]_vars

(***************************************************************************)
(* C2: the ballot store is append-only: once it maps u to c it maps u to c *)
(* in every later state.                                                   *)
(***************************************************************************)
C2_AppendOnly ==
    [][\A u \in DOMAIN votes :
           u \in DOMAIN votes' /\ votes'[u] = votes[u]]_vars

(***************************************************************************)
(* C3: once a ballot is recorded for u, every CHECK line for u is refused: *)
(* face verification is not started, ALLOW is not the answer, and unless   *)
(* the write itself raises the command written is DENY.                    *)
(***************************************************************************)
C3_AtMostOneVote ==
    [][(TakesCheck /\ ParseUid(Line) \in DOMAIN votes) =>
           /\ pc' \in {"poll", "except"}
           /\ lastReply' # "ALLOW"
           /\ pc' = "poll" => (Writes /\ tx' = "DENY" /\ lastReply' = "DENY")
           /\ pc' = "except" => ~Writes]_vars

C3_Witness ==
    /\ pc = "poll"
    /\ tx = "DENY"
    /\ lastReply = "DENY"
    /\ lastCard \in DOMAIN votes
    /\ Prefix(lastCard) \in AllowedPrefixes
    /\ CanMatch(Prefix(lastCard))

(***************************************************************************)
(* C4: verify_face runs only for a card whose prefix is allowed and that   *)
(* has no ballot in the store.                                             *)
(***************************************************************************)
C4_GatingPrecedesBiometrics ==
    pc = "verify" =>
        /\ uid = lastCard
        /\ Prefix(lastCard) \in AllowedPrefixes
        /\ lastCard \notin DOMAIN votes

C4_Witness ==
    /\ pc = "verify"
    /\ DOMAIN votes # {}

(***************************************************************************)
(* C5: a VOTE line handled while no session is live (no card allowed since *)
(* the last CHECK line or the last recorded vote) leaves the store and the *)
(* file unchanged and writes no command.                                   *)
(***************************************************************************)
C5_VoteWithoutSessionIsNoop ==
    [][(VoteStep /\ ~sessionLive) =>
           (votes' = votes /\ disk' = disk /\ ~Writes)]_vars

(***************************************************************************)
(* C6: when a CHECK line for another credential ends a live session, a     *)
(* later vote leaves the ballot of the superseded credential alone and     *)
(* is recorded for the credential of that latest CHECK line.               *)
(***************************************************************************)
C6_SessionSupersession ==
    [][(superseded # None /\ votes' # votes) =>
           /\ lastCard # superseded
           /\ votes' = Put(votes, lastCard, candidate)
           /\ \A u \in DOMAIN votes' : BallotChanged(u) => u = lastCard]_vars

C6_Witness ==
    /\ pc = "poll"
    /\ tx = "CLEAR"
    /\ superseded # None
    /\ superseded \notin DOMAIN votes
    /\ lastCard \in DOMAIN votes

(***************************************************************************)
(* C7: without a transport error, the handling of a CHECK line writes      *)
(* exactly one command: ALLOW if the prefix is allowed, the card has no    *)
(* ballot and verify_face returned true, and DENY in every other case.     *)
(***************************************************************************)
C7_CheckDone == (TakesCheck \/ pc \in {"allow", "deny"}) /\ pc' = "poll"

C7_Granted ==
    /\ Prefix(lastCard') \in AllowedPrefixes
    /\ lastCard' \notin DOMAIN votes
    /\ pc = "allow"

C7_CardCheckDecision ==
    [][/\ C7_CheckDone =>
              (Writes /\ tx' = IF C7_Granted THEN "ALLOW" ELSE "DENY")
       /\ (TakesCheck /\ pc' = "verify") => ~Writes
       /\ pc = "verify" => ~Writes]_vars

C7_Witness ==
    /\ pc = "poll"
    /\ tx = "ALLOW"
    /\ lastReply = "ALLOW"
    /\ faults = 0
    /\ DOMAIN votes # {}

(***************************************************************************)
(* C8: whenever STORE is written, the ballot (uid, candidate) is already   *)
(* in votes.json.                                                          *)
(***************************************************************************)
C8_StoreAcknowledgesPersistedVote ==
    [][(Writes /\ tx' = "STORE") =>
           /\ disk.exists /\ disk.valid
           /\ uid \in DOMAIN disk.data
           /\ disk.data[uid] = candidate']_vars

C10_CardCheckLeavesStore ==
    [][CheckStep => (votes' = votes /\ disk' = disk)]_vars

C10_Witness ==
    /\ pc = "poll"
    /\ sessionLive
    /\ tx = "ALLOW"
    /\ DOMAIN votes # {}
    /\ disk = Save(votes)

(***************************************************************************)
(* C11: a failing read or write is caught by the handler of line 184 and   *)
(* the loop goes back to polling with its state and the unread lines       *)
(* intact; no error step ends the loop, only Ctrl-C does.                  *)
(***************************************************************************)
C11_TransportErrorsNotFatal ==
    [][/\ pc = "except" => ENABLED Recover
       /\ faults' # faults => pc' = "except"
       /\ (pc = "except" /\ pc' \notin {"except", "killed"}) =>
              (pc' = "poll" /\ UNCHANGED <<rx, tx, uid, candidate, votes, disk>>)
       /\ (pc' \in {"stopped", "killed"} /\ pc' # pc) => faults' = faults]_vars

C11_Witness ==
    /\ pc = "poll"
    /\ faults > 0
    /\ tx = "STORE"
    /\ rx # <<>>

NonAscii == "U+00E9"

HexDigits == {"0", "1", "2", "3", "4", "5", "6", "7", "8", "9",
              "a", "b", "c", "d", "e", "f", "A", "B", "C", "D", "E", "F"}

\* Variant of JsonEscapeChar that leaves the backslash as it is.
JsonEscapeCharRaw(c) ==
    IF c = "\"" THEN <<"\\", "\"">>
    ELSE IF c = "\n" THEN <<"\\", "n">>
    ELSE IF c = "\t" THEN <<"\\", "t">>
    ELSE IF c = NonAscii THEN <<"\\", "u", "0", "0", "e", "9">>
    ELSE <<c>>

\* json.dump's string encoder with ensure_ascii (the default)
JsonEscapeChar(c) ==
    IF c = "\"" THEN <<"\\", "\"">>
    ELSE IF c = "\\" THEN <<"\\", "\\">>
    ELSE IF c = "\n" THEN <<"\\", "n">>
    ELSE IF c = "\t" THEN <<"\\", "t">>
    ELSE IF c = NonAscii THEN <<"\\", "u", "0", "0", "e", "9">>
    ELSE <<c>>

RECURSIVE JsonEscape(_)
JsonEscape(s) ==
    IF s = <<>> THEN <<>> ELSE JsonEscapeChar(Head(s)) \o JsonEscape(Tail(s))

JsonQuote(s) == <<"\"">> \o JsonEscape(s) \o <<"\"">>

\* indent=4
Indent == <<" ", " ", " ", " ">>

RECURSIVE JsonItems(_)
JsonItems(d) ==
    IF d = <<>> THEN <<>>
    ELSE Indent \o JsonQuote(Head(d).k) \o <<":", " ">> \o JsonQuote(Head(d).v)
         \o (IF Tail(d) = <<>> THEN <<"\n">> ELSE <<",", "\n">>)
         \o JsonItems(Tail(d))

JsonDump(d) ==
    IF d = <<>> THEN <<"{", "}">> ELSE <<"{", "\n">> \o JsonItems(d) \o <<"}">>

\* json.load: the result of a parse is [ok, val, next]; ok = FALSE stands for
\* JSONDecodeError
Fail == [ok |-> FALSE, val |-> <<>>, next |-> 0]

JsonWs == {" ", "\n", "\r", "\t"}

RECURSIVE SkipWs(_, _)
SkipWs(t, i) == IF i <= Len(t) /\ t[i] \in JsonWs THEN SkipWs(t, i + 1) ELSE i

UnicodeOf(h) == IF h = <<"0", "0", "e", "9">> THEN NonAscii ELSE "U+other"

\* the characters of a string after its opening quote
RECURSIVE ParseChars(_, _, _)
ParseChars(t, i, acc) ==
    IF i > Len(t) THEN Fail
    ELSE IF t[i] = "\"" THEN [ok |-> TRUE, val |-> acc, next |-> i + 1]
    ELSE IF t[i] = "\\" THEN
        IF i + 1 > Len(t) THEN Fail
        ELSE IF t[i + 1] \in {"\"", "\\", "/"}
            THEN ParseChars(t, i + 2, Append(acc, t[i + 1]))
        ELSE IF t[i + 1] = "n" THEN ParseChars(t, i + 2, Append(acc, "\n"))
        ELSE IF t[i + 1] = "t" THEN ParseChars(t, i + 2, Append(acc, "\t"))
        ELSE IF /\ t[i + 1] = "u"
                /\ i + 5 <= Len(t)
                /\ \A j \in 2..5 : t[i + j] \in HexDigits
            THEN ParseChars(t, i + 6,
                            Append(acc, UnicodeOf(SubSeq(t, i + 2, i + 5))))
        ELSE Fail
    ELSE IF t[i] \in {"\n", "\r", "\t"} THEN Fail
    ELSE ParseChars(t, i + 1, Append(acc, t[i]))

ParseString(t, i) ==
    IF i <= Len(t) /\ t[i] = "\"" THEN ParseChars(t, i + 1, <<>>) ELSE Fail

\* d[k] = v on a dict
DictSet(d, k, v) ==
    IF \E j \in 1..Len(d) : d[j].k = k
    THEN [j \in 1..Len(d) |-> IF d[j].k = k THEN [k |-> k, v |-> v] ELSE d[j]]
    ELSE Append(d, [k |-> k, v |-> v])

RECURSIVE ParseMembers(_, _, _)
ParseMembers(t, i, acc) ==
    LET key == ParseString(t, i)
        colon == SkipWs(t, key.next)
        val == ParseString(t, SkipWs(t, colon + 1))
        sep == SkipWs(t, val.next)
    IN  IF ~key.ok THEN Fail
        ELSE IF colon > Len(t) \/ t[colon] # ":" THEN Fail
        ELSE IF ~val.ok THEN Fail
        ELSE IF sep > Len(t) THEN Fail
        ELSE IF t[sep] = ","
            THEN ParseMembers(t, SkipWs(t, sep + 1),
                              DictSet(acc, key.val, val.val))
        ELSE IF t[sep] = "}"
            THEN [ok |-> TRUE, val |-> DictSet(acc, key.val, val.val),
                  next |-> sep + 1]
        ELSE Fail

JsonLoad(t) ==
    LET open == SkipWs(t, 1)
        first == SkipWs(t, open + 1)
        body == IF first <= Len(t) /\ t[first] = "}"
                THEN [ok |-> TRUE, val |-> <<>>, next |-> first + 1]
                ELSE ParseMembers(t, first, <<>>)
    IN  IF open > Len(t) \/ t[open] # "{" THEN Fail
        ELSE IF body.ok /\ SkipWs(t, body.next) > Len(t)
            THEN [ok |-> TRUE, val |-> body.val, next |-> 0]
        ELSE Fail

AbsentFile == [exists |-> FALSE, text |-> <<>>]

\* lines 105-107
SaveVotes(d) == [exists |-> TRUE, text |-> JsonDump(d)]

\* lines 99-103
LoadVotes(f) ==
    IF f.exists THEN JsonLoad(f.text) ELSE [ok |-> TRUE, val |-> <<>>, next |-> 0]

\* credentials and candidates with the characters the encoder treats specially
StoreKeys == {<<"a">>, <<"\"">>, <<"\\">>, <<"\\", "n">>, <<NonAscii, "a">>}
StoreValues == {<<>>, <<"a">>, <<"\\", "\"">>, <<"\t">>, <<"}", ",">>}
StoreEntries == {[k |-> k, v |-> v] : k \in StoreKeys, v \in StoreValues}
StoreMappings ==
    {<<>>} \cup {<<e>> : e \in StoreEntries}
           \cup {<<p[1], p[2]>> :
                     p \in {q \in StoreEntries \X StoreEntries : q[1].k # q[2].k}}

RtStart(m) ==
    [step |-> "start", m |-> m, file |-> AbsentFile, probe |-> Fail,
     first |-> AbsentFile, loaded |-> Fail, second |-> AbsentFile]

InitReload ==
    /\ pc = "poll"
    /\ rx = <<>>
    /\ tx = "none"
    /\ nsent = 0
    /\ uid = None
    /\ candidate = None
    /\ disk = NoFile
    /\ votes = Load(disk)
    /\ faults = 0
    /\ lastCard = None
    /\ lastReply = "none"
    /\ sessionLive = FALSE
    /\ superseded = None
    /\ saveFailed = FALSE
    /\ sawCard = FALSE
    /\ inertSince = FALSE
    /\ sincePrompt = 0
    /\ \E m \in StoreMappings : rt = RtStart(m)
    /\ hs = HsDone

\* load_votes with no votes.json
LoadAbsent ==
    /\ rt.step = "start"
    /\ rt' = [rt EXCEPT !.step = "probed", !.probe = LoadVotes(rt.file)]
    /\ UNCHANGED <<pc, rx, tx, nsent, uid, candidate, votes, disk, faults,
                   lastCard, lastReply, sessionLive, superseded,
                   saveFailed, sawCard, inertSince, sincePrompt, hs>>

\* save_votes(m)
FirstSave ==
    /\ rt.step = "probed"
    /\ rt' = [rt EXCEPT !.step = "saved", !.file = SaveVotes(rt.m),
                        !.first = SaveVotes(rt.m)]
    /\ UNCHANGED <<pc, rx, tx, nsent, uid, candidate, votes, disk, faults,
                   lastCard, lastReply, sessionLive, superseded,
                   saveFailed, sawCard, inertSince, sincePrompt, hs>>

\* load_votes()
Reload ==
    /\ rt.step = "saved"
    /\ rt' = [rt EXCEPT !.step = "loaded", !.loaded = LoadVotes(rt.file)]
    /\ UNCHANGED <<pc, rx, tx, nsent, uid, candidate, votes, disk, faults,
                   lastCard, lastReply, sessionLive, superseded,
                   saveFailed, sawCard, inertSince, sincePrompt, hs>>

\* save_votes of what was loaded
SecondSave ==
    /\ rt.step = "loaded"
    /\ rt.loaded.ok
    /\ rt' = [rt EXCEPT !.step = "resaved", !.file = SaveVotes(rt.loaded.val),
                        !.second = SaveVotes(rt.loaded.val)]
    /\ UNCHANGED <<pc, rx, tx, nsent, uid, candidate, votes, disk, faults,
                   lastCard, lastReply, sessionLive, superseded,
                   saveFailed, sawCard, inertSince, sincePrompt, hs>>

NextReload == LoadAbsent \/ FirstSave \/ Reload \/ SecondSave

SpecReload == InitReload /\ [][NextReload]_vars

(***************************************************************************)
(* C13: saving a mapping m, loading the file and saving what was loaded    *)
(* writes the text of the first save again, and what was loaded is m;      *)
(* loading with no file gives the empty mapping.                           *)
(***************************************************************************)
C13_IdempotentReload ==
    /\ rt.step \in {"probed", "saved", "loaded", "resaved"} =>
           (rt.probe.ok /\ rt.probe.val = <<>>)
    /\ rt.step \in {"loaded", "resaved"} =>
           (rt.loaded.ok /\ rt.loaded.val = rt.m)
    /\ rt.step = "resaved" =>
           (rt.second = rt.first /\ rt.file = rt.first)

C13_Witness ==
    /\ rt.step = "resaved"
    /\ Len(rt.m) = 2
    /\ rt.m[1].k = <<"\\", "n">>
    /\ rt.m[2].v = <<"\\", "\"">>
    /\ rt.second.text = JsonDump(rt.m)

(***************************************************************************)
(* C14: a line that is neither a CHECK: nor a VOTE: line (READY, empty     *)
(* after strip, anything else) is inert: taking it writes no command and   *)
(* changes neither the session nor the store; a vote that follows such a   *)
(* line in a live session is recorded for the card of that session.        *)
(***************************************************************************)
C14_TakesInert ==
    /\ HasLine
    /\ rx' = Tail(rx)
    /\ ~IsCheck(Line)
    /\ ~IsVote(Line)

C14_ReadyAndUnrecognizedInert ==
    [][/\ C14_TakesInert =>
              (/\ ~Writes
               /\ UNCHANGED <<pc, tx, uid, candidate, votes, disk,
                              sessionLive, lastCard, lastReply>>)
       /\ (pc = "sleep" /\ pc' = "poll" /\ sessionLive /\ inertSince) =>
              (/\ uid = lastCard
               /\ votes' = Put(votes, lastCard, candidate))]_vars

C14_Witness ==
    /\ pc = "poll"
    /\ inertSince
    /\ ~sessionLive
    /\ tx = "CLEAR"
    /\ lastReply = "ALLOW"
    /\ lastCard \in DOMAIN votes
    /\ votes[lastCard] = candidate

(***************************************************************************)
(* The device keeps sending while the host is inside verify_face or about  *)
(* to answer: the serial driver buffers one line more than in the polling  *)
(* loop.                                                                   *)
(***************************************************************************)
QueueCap == MaxRx + 1

DeviceBurst ==
    /\ pc \in {"verify", "allow", "deny"}
    /\ Len(rx) < QueueCap
    /\ \E l \in DeviceLines : rx' = Append(rx, l)
    /\ UNCHANGED <<pc, tx, nsent, uid, candidate, votes, disk, faults,
                   lastCard, lastReply, sessionLive, superseded,
                   saveFailed, sawCard, inertSince, sincePrompt, rt, hs>>

NextQueue == Next \/ DeviceBurst

SpecQueue == Init /\ [][NextQueue]_vars

(***************************************************************************)
(* C15: from the call of verify_face until the ALLOW or DENY for that card *)
(* is written the host takes no line and changes neither uid nor the       *)
(* store; the only command it writes is that reply.  What the device sent  *)
(* meanwhile waits in the buffer and is taken afterwards from the front,   *)
(* oldest first.                                                           *)
(***************************************************************************)
C15_Verifying == pc \in {"verify", "allow", "deny"}

C15_VerificationBlocks ==
    [][/\ C15_Verifying =>
              (/\ rx' = rx \/ \E l \in DeviceLines : rx' = Append(rx, l)
               /\ UNCHANGED <<uid, candidate, votes, disk, lastCard>>
               /\ Writes => (/\ pc' = "poll"
                             /\ tx' = Reply(pc = "allow")
                             /\ lastReply' = tx')
               /\ (pc' = "poll") => Writes)
       /\ (rx' # rx) =>
              \/ \E l \in DeviceLines : rx' = Append(rx, l)
              \/ HasLine /\ rx' = Tail(rx)]_vars

C15_Witness ==
    /\ pc = "poll"
    /\ tx = "ALLOW"
    /\ sessionLive
    /\ Len(rx) = QueueCap
    /\ IsVote(ReadLine(rx[1]))
    /\ IsCheck(ReadLine(rx[QueueCap]))

(***************************************************************************)
(* main(): lines 116 and 122-124, the prompt.  The clock is counted in     *)
(* seconds since last_prompt; past PromptInterval + 1 the count no longer  *)
(* matters.  The test of line 122 is made at the top of an iteration, with *)
(* no regard to uid.                                                       *)
(***************************************************************************)
PromptInterval == 5

\* a second passes
Tick ==
    /\ pc \notin {"stopped", "killed"}
    /\ sincePrompt <= PromptInterval
    /\ sincePrompt' = sincePrompt + 1
    /\ UNCHANGED <<pc, rx, tx, nsent, uid, candidate, votes, disk, faults,
                   lastCard, lastReply, sessionLive, superseded,
                   saveFailed, sawCard, inertSince, rt, hs>>

\* lines 122-124
Prompt ==
    /\ pc = "poll"
    /\ sincePrompt > PromptInterval
    /\ sincePrompt' = 0
    /\ UNCHANGED <<pc, rx, tx, nsent, uid, candidate, votes, disk, faults,
                   lastCard, lastReply, sessionLive, superseded,
                   saveFailed, sawCard, inertSince, rt, hs>>

NextPrompt == Next \/ Tick \/ Prompt

SpecPrompt == Init /\ [][NextPrompt]_vars

(***************************************************************************)
(* C16: the scan-your-card prompt is printed only while no session is      *)
(* authorized and waiting for its vote.                                    *)
(***************************************************************************)
C16_PromptOnlyWhenIdle ==
    [][(pc = "poll" /\ sincePrompt > PromptInterval /\ sincePrompt' = 0) =>
           ~sessionLive]_vars

(***************************************************************************)
(* C17: no credential in the store is mapped to the empty candidate: a     *)
(* VOTE: line with nothing after the colon records no ballot.              *)
(***************************************************************************)
C17_CandidatesNonEmpty ==
    \A u \in DOMAIN votes : votes[u] # <<>>

(***************************************************************************)
(* C18: until a CHECK line with a non-empty uid has been taken, every VOTE *)
(* line is dropped: the store and the file stay as they are and no command *)
(* is written.  A CHECK: line with an empty uid is answered DENY and       *)
(* leaves the host in that same condition.                                 *)
(***************************************************************************)
C18_InitialVotesDropped ==
    [][/\ ~sawCard => NoSession(uid)
       /\ (TakesVote /\ ~sawCard) =>
              (/\ ~Writes
               /\ pc' = "poll"
               /\ UNCHANGED <<tx, uid, votes, disk, sessionLive>>)
       /\ (TakesCheck /\ ParseUid(Line) = <<>> /\ pc' # "except") =>
              (/\ Writes
               /\ tx' = "DENY"
               /\ pc' = "poll"
               /\ sawCard' = sawCard
               /\ ~sessionLive'
               /\ UNCHANGED <<votes, disk>>)]_vars

C18_Witness ==
    /\ pc = "poll"
    /\ ~sawCard
    /\ lastCard = <<>>
    /\ uid = <<>>
    /\ tx = "DENY"
    /\ candidate = <<"Y">>
    /\ votes = Load(disk)

(***************************************************************************)
(* connect_esp32(): lines 33-41, the wait for READY after the port was     *)
(* opened, and lines 112-117, the entry into the loop.                     *)
(***************************************************************************)
HsWaiting == [seen |-> "waiting", dropped |-> FALSE]

InitBoot ==
    /\ pc = "boot"
    /\ rx = <<>>
    /\ tx = "none"
    /\ nsent = 0
    /\ uid = None
    /\ candidate = None
    /\ disk \in InitialFiles
    /\ votes = EmptyMap
    /\ faults = 0
    /\ lastCard = None
    /\ lastReply = "none"
    /\ sessionLive = FALSE
    /\ superseded = None
    /\ saveFailed = FALSE
    /\ sawCard = FALSE
    /\ inertSince = FALSE
    /\ sincePrompt = 0
    /\ rt = RtIdle
    /\ hs = HsWaiting

\* lines 35-37: a line without READY is read and forgotten
BootDiscard ==
    /\ pc = "boot"
    /\ rx # <<>>
    /\ ~Contains(Line, READY)
    /\ rx' = Tail(rx)
    /\ hs' = [hs EXCEPT !.dropped = @ \/ IsCheck(Line) \/ IsVote(Line)]
    /\ UNCHANGED <<pc, tx, nsent, uid, candidate, votes, disk, faults,
                   lastCard, lastReply, sessionLive, superseded,
                   saveFailed, sawCard, inertSince, sincePrompt, rt>>

\* Variant of BootTimeout that gives up when READY never came.
BootTimeoutExit ==
    /\ pc = "boot"
    /\ pc' = "exited"
    /\ hs' = [hs EXCEPT !.seen = "done"]
    /\ UNCHANGED <<rx, tx, nsent, uid, candidate, votes, disk, faults,
                   lastCard, lastReply, sessionLive, superseded,
                   saveFailed, sawCard, inertSince, sincePrompt, rt>>

\* lines 37-39 and 112-117: READY is in the line, main() loads the votes
BootReady ==
    /\ pc = "boot"
    /\ rx # <<>>
    /\ Contains(Line, READY)
    /\ rx' = Tail(rx)
    /\ hs' = [hs EXCEPT !.seen = "done"]
    /\ votes' = Load(disk)
    /\ pc' = "poll"
    /\ UNCHANGED <<tx, nsent, uid, candidate, disk, faults,
                   lastCard, lastReply, sessionLive, superseded,
                   saveFailed, sawCard, inertSince, sincePrompt, rt>>

\* lines 34, 40-41 and 112-117: eight seconds are over, "continuing anyway"
BootTimeout ==
    /\ pc = "boot"
    /\ hs' = [hs EXCEPT !.seen = "done"]
    /\ votes' = Load(disk)
    /\ pc' = "poll"
    /\ UNCHANGED <<rx, tx, nsent, uid, candidate, disk, faults,
                   lastCard, lastReply, sessionLive, superseded,
                   saveFailed, sawCard, inertSince, sincePrompt, rt>>

\* lines 42-44: the port raises during the wait and the program exits
BootFail ==
    /\ pc = "boot"
    /\ faults < MaxFaults
    /\ faults' = faults + 1
    /\ pc' = "exited"
    /\ UNCHANGED <<rx, tx, nsent, uid, candidate, votes, disk,
                   lastCard, lastReply, sessionLive, superseded,
                   saveFailed, sawCard, inertSince, sincePrompt, rt, hs>>

NextBoot == Next \/ BootDiscard \/ BootReady \/ BootTimeout \/ BootFail

SpecBoot == InitBoot /\ [][NextBoot]_vars

(***************************************************************************)
(* C19: unless the port raises, the wait for READY ends in the main loop,  *)
(* with READY seen or after the timeout; a line without READY read during  *)
(* the wait is dropped: no command is written, no uid set, and the store   *)
(* and the file are not changed.                                           *)
(***************************************************************************)
C19_StartupHandshake ==
    [][pc = "boot" =>
           /\ ENABLED BootTimeout
           /\ ~Writes
           /\ UNCHANGED <<tx, uid, candidate, disk, sessionLive, sawCard,
                          lastCard>>
           /\ (rx # <<>> /\ rx' = Tail(rx) /\ ~Contains(Line, READY)) =>
                  (pc' = "boot" /\ votes' = votes)
           /\ (pc' # "boot" /\ faults' = faults) =>
                  (pc' = "poll" /\ votes' = Load(disk))]_vars

C19_Witness ==
    /\ pc = "poll"
    /\ hs.seen = "done"
    /\ hs.dropped
    /\ rx = <<>>
    /\ tx = "none"
    /\ uid = None
    /\ DOMAIN votes # {}
    /\ votes = Load(disk)

====
